---------------------------- MODULE Spec2Model ----------------------------
(***************************************************************************)
(* Model of separate_sources (hybrid_demucs_tutorial.ipynb, cell 4): the   *)
(* chunk scheduler and cross-fade accumulator that applies a model to a    *)
(* long signal window by window.                                           *)
(*                                                                         *)
(* Abstractions.                                                           *)
(*  - The tensors are reduced to their frame axis: one batch item, one     *)
(*    source, one channel.  The fade gain is broadcast over the other      *)
(*    axes, so they do not take part in the scheduling.                    *)
(*  - segment and overlap are floats in the code; here they are exact      *)
(*    rationals segment = num/den, overlap = num/den.  Products and        *)
(*    comparisons are computed exactly, int() truncates toward zero.       *)
(*    Binary floating-point rounding error is not modelled.                *)
(*  - Sample values are integers.  Fade gains are the rationals            *)
(*    k/(n-1) of torch.linspace(0, 1, n); they are kept as numerators      *)
(*    over Unit, and the accumulator is kept in units of 1/(Unit*Unit).    *)
(***************************************************************************)
EXTENDS Integers, Sequences, FiniteSets, TLC

\* ---------------------------------------------------------------- bounds
MaxLen == 8
MaxRate == 4
SegDen == 4
MaxSegNum == 4
OvDen == 4
MaxWindows == 12
MaxMisshaped == 1

VARIABLES
    mix,            \* the input signal, frame index 0..length-1 -> sample
    adapter,        \* which model.forward is plugged in
    length,         \* mix.shape[-1]
    sample_rate,    \* global sample_rate (frames per second)
    segment,        \* <<num, den>>, seconds
    overlap,        \* <<num, den>>, fraction
    chunk_len,
    start,
    end,
    fade,           \* the Fade object: [fade_in_len, fade_out_len]
    final,          \* the accumulator, frame index -> sample * Unit^2
    pc,             \* "entry", "loop", "returned", "raised"
    error,          \* the exception that ended the call, or "none"
    windows         \* history: one record per processed window

vars == <<mix, adapter, length, sample_rate, segment, overlap, chunk_len,
          start, end, fade, final, pc, error, windows>>

\* ------------------------------------------------------------ arithmetic
Min(a, b) == IF a <= b THEN a ELSE b

Max(a, b) == IF a >= b THEN a ELSE b

\* Mutant: int() replaced by rounding to the nearest integer, half up.
PyInt_Nearest(a, b) ==
    IF a >= 0 THEN (2 * a + b) \div (2 * b) ELSE -((2 * (-a) + b) \div (2 * b))

\* Python int() of the rational a/b (b > 0): truncation toward zero.
PyInt(a, b) == IF a >= 0 THEN a \div b ELSE -((-a) \div b)

\* chunk_len = int(sample_rate * segment * (1 + overlap))
ChunkLen(R, seg, ov) ==
    PyInt(R * seg[1] * (ov[2] + ov[1]), seg[2] * ov[2])

\* overlap_frames = overlap * sample_rate, a float: numerator over overlap[2]
OverlapFramesNum == overlap[1] * sample_rate

\* int(overlap_frames)
IntOverlapFrames == PyInt(OverlapFramesNum, overlap[2])

\* Mutant: the first advance forgets the overlap.
FirstAdvance_NoOverlap == chunk_len

\* Mutant: the first advance is one frame short.
FirstAdvance_OffByOne ==
    PyInt(chunk_len * overlap[2] - OverlapFramesNum, overlap[2]) - 1

\* int(chunk_len - overlap_frames)
FirstAdvance == PyInt(chunk_len * overlap[2] - OverlapFramesNum, overlap[2])

\* start < length - overlap_frames
LoopCond == start * overlap[2] < length * overlap[2] - OverlapFramesNum

\* --------------------------------------------------------------- slicing
\* Python slice bound normalisation for a sequence of n items.
PyIndex(i, n) == IF i < 0 THEN Max(i + n, 0) ELSE Min(i, n)

\* mix[:, :, start:end] and final[:, :, :, start:end] select frames Lo..Hi-1
Lo == PyIndex(start, length)

Hi == Max(PyIndex(end, length), Lo)

SliceLen == Hi - Lo

chunk == [i \in 0..(SliceLen - 1) |-> mix[Lo + i]]

\* ------------------------------------------------------ inference adapter
Adapters == {"identity", "shift"}

\* model.forward(chunk): same number of frames as the chunk.  "identity"
\* returns the chunk, "shift" adds the position inside the chunk, so that
\* two windows give different outputs for the same frame.
Infer(a, x) ==
    [i \in DOMAIN x |-> IF a = "identity" THEN x[i] ELSE x[i] + i + 1]

\* ------------------------------------------------------------------ Fade
\* Denominator shared by every gain of one call: linspace(0, 1, n) has
\* step 1/(n-1), and every non-zero fade length of a call is
\* int(overlap_frames).
Unit == Max(IntOverlapFrames - 1, 1)

\* torch.linspace(0, 1, n)[k] times Unit, for 0 <= k < n
Linspace(k, n) == IF n = 1 THEN 0 ELSE (k * Unit) \div (n - 1)

\* Fade._fade_in(n)[i] times Unit: cat(linspace(0, 1, fade_in_len), ones)
FadeInGain(i, fin) == IF i < fin THEN Linspace(i, fin) ELSE Unit

\* Fade._fade_out(n)[i] times Unit: cat(ones, 1 - linspace(0, 1, fade_out_len))
FadeOutGain(i, n, fout) ==
    IF i >= n - fout THEN Unit - Linspace(i - (n - fout), fout) ELSE Unit

\* Fade.forward on n frames: _fade_in(n) * _fade_out(n), times Unit^2
Gain(i, n, f) == FadeInGain(i, f.fade_in_len) * FadeOutGain(i, n, f.fade_out_len)

\* Fade.forward raises when torch.linspace gets a negative step count or
\* torch.ones a negative size.
FadeFails(n, f) ==
    \/ f.fade_in_len < 0
    \/ f.fade_out_len < 0
    \/ n - f.fade_in_len < 0
    \/ n - f.fade_out_len < 0

\* Mutant: the faded output is assigned to the slice instead of added.
Accumulate_Assign(acc, faded) ==
    [f \in DOMAIN acc |->
        IF Lo <= f /\ f < Hi
        THEN (IF DOMAIN faded = {0} THEN faded[0] ELSE faded[f - Lo])
        ELSE acc[f]]

\* final[:, :, :, start:end] += out, for a faded output of SliceLen frames
\* or, by broadcasting, of one frame.
Accumulate(acc, faded) ==
    [f \in DOMAIN acc |->
        IF Lo <= f /\ f < Hi
        THEN acc[f] + (IF DOMAIN faded = {0} THEN faded[0] ELSE faded[f - Lo])
        ELSE acc[f]]

\* ----------------------------------------------------------------- input
Signals(L) ==
    { [i \in 0..(L - 1) |-> 1], [i \in 0..(L - 1) |-> i + 1] }

Segments == { <<n, SegDen>> : n \in 0..MaxSegNum }

Overlaps == { <<n, OvDen>> : n \in (-1)..OvDen }

\* Two calls outside the small grid: a 100-frame signal at 10 frames per
\* second with segment = 5 and overlap = 0.1, and a 115-frame signal at 10
\* frames per second with the default parameters of line 187-188,
\* segment = 10.0 and overlap = 0.1.
Scenarios ==
    { [length |-> 100, sample_rate |-> 10,
       segment |-> <<5, 1>>, overlap |-> <<1, 10>>],
      [length |-> 115, sample_rate |-> 10,
       segment |-> <<10, 1>>, overlap |-> <<1, 10>>] }

Init ==
    /\ \/ /\ length \in 0..MaxLen
          /\ sample_rate \in 1..MaxRate
          /\ segment \in Segments
          /\ overlap \in Overlaps
       \/ \E c \in Scenarios :
             /\ length = c.length
             /\ sample_rate = c.sample_rate
             /\ segment = c.segment
             /\ overlap = c.overlap
    /\ mix \in Signals(length)
    /\ adapter \in Adapters
    /\ chunk_len = 0
    /\ start = 0
    /\ end = 0
    /\ fade = [fade_in_len |-> 0, fade_out_len |-> 0]
    /\ final = <<>>
    /\ pc = "entry"
    /\ error = "none"
    /\ windows = <<>>

\* --------------------------------------------------------------- actions
\* Mutant: the Fade object is built with the fade-in already switched on.
Setup_FadeInOn ==
    /\ pc = "entry"
    /\ chunk_len' = ChunkLen(sample_rate, segment, overlap)
    /\ start' = 0
    /\ end' = chunk_len'
    /\ fade' = [fade_in_len |-> IntOverlapFrames,
                fade_out_len |-> IntOverlapFrames]
    /\ final' = [i \in 0..(length - 1) |-> 0]
    /\ pc' = "loop"
    /\ UNCHANGED <<mix, adapter, length, sample_rate, segment, overlap,
                   error, windows>>

\* Lines 206-214: the locals before the loop.
Setup ==
    /\ pc = "entry"
    /\ chunk_len' = ChunkLen(sample_rate, segment, overlap)
    /\ start' = 0
    /\ end' = chunk_len'
    /\ fade' = [fade_in_len |-> 0, fade_out_len |-> IntOverlapFrames]
    /\ final' = [i \in 0..(length - 1) |-> 0]
    /\ pc' = "loop"
    /\ UNCHANGED <<mix, adapter, length, sample_rate, segment, overlap,
                   error, windows>>

\* Lines 216-229: one iteration of the while loop, model.forward and
\* fade both succeeding.
Iterate ==
    /\ pc = "loop"
    /\ LoopCond
    /\ Len(windows) < MaxWindows
    /\ ~FadeFails(SliceLen, fade)
    /\ LET out  == Infer(adapter, chunk)
           gain == [i \in 0..(SliceLen - 1) |-> Gain(i, SliceLen, fade)]
       IN /\ final' = Accumulate(final,
                              [i \in 0..(SliceLen - 1) |-> gain[i] * out[i]])
          /\ windows' = Append(windows,
                 [start |-> start, end |-> end, lo |-> Lo, hi |-> Hi,
                  fade_in_len |-> fade.fade_in_len,
                  fade_out_len |-> fade.fade_out_len,
                  out |-> out, gain |-> gain, out_len |-> SliceLen])
    /\ start' = IF start = 0 THEN start + FirstAdvance ELSE start + chunk_len
    /\ end' = end + chunk_len
    /\ fade' = [fade_in_len  |-> IF start = 0 THEN IntOverlapFrames
                                 ELSE fade.fade_in_len,
                fade_out_len |-> IF end' >= length THEN 0
                                 ELSE fade.fade_out_len]
    /\ UNCHANGED <<mix, adapter, length, sample_rate, segment, overlap,
                   chunk_len, pc, error>>

\* Line 219: model.forward raises; the exception leaves separate_sources.
AdapterRaises ==
    /\ pc = "loop"
    /\ LoopCond
    /\ Len(windows) < MaxWindows
    /\ pc' = "raised"
    /\ error' = "AdapterError"
    /\ UNCHANGED <<mix, adapter, length, sample_rate, segment, overlap,
                   chunk_len, start, end, fade, final, windows>>

\* Line 220: Fade.forward raises on the output of model.forward.
FadeRaises ==
    /\ pc = "loop"
    /\ LoopCond
    /\ Len(windows) < MaxWindows
    /\ FadeFails(SliceLen, fade)
    /\ pc' = "raised"
    /\ error' = "RuntimeError"
    /\ UNCHANGED <<mix, adapter, length, sample_rate, segment, overlap,
                   chunk_len, start, end, fade, final, windows>>

\* Lines 216 and 230: the loop condition is false, final is returned.
Return ==
    /\ pc = "loop"
    /\ ~LoopCond
    /\ pc' = "returned"
    /\ UNCHANGED <<mix, adapter, length, sample_rate, segment, overlap,
                   chunk_len, start, end, fade, final, error, windows>>

Next == Setup \/ Iterate \/ AdapterRaises \/ FadeRaises \/ Return

\* ------------------------------------- an adapter that breaks its contract
\* Frame counts a misbehaving model.forward may return for a chunk of n
\* frames: none, one, or one too many.
BadLens(n) == {0, 1, n + 1} \ {n}

\* The windows accumulated so far from an output of the wrong frame count.
Misshaped == { k \in 1..Len(windows) :
                  windows[k].out_len # windows[k].hi - windows[k].lo }

\* Lines 219-221 when model.forward returns m # SliceLen frames and the call
\* does not survive it: fade(out) raises on the m frames, or the in-place
\* += raises because m frames do not broadcast to the slice (only m = 1
\* does).
MisshapedRaises ==
    /\ pc = "loop"
    /\ LoopCond
    /\ Len(windows) < MaxWindows
    /\ \E m \in BadLens(SliceLen) : FadeFails(m, fade) \/ m # 1
    /\ pc' = "raised"
    /\ error' = "RuntimeError"
    /\ UNCHANGED <<mix, adapter, length, sample_rate, segment, overlap,
                   chunk_len, start, end, fade, final, windows>>

\* Lines 216-229 when model.forward returns one frame for a chunk of
\* SliceLen # 1 frames: fade(out) fades the one frame and += broadcasts it
\* over the whole slice; the iteration goes on as usual.
MisshapedBroadcast ==
    /\ pc = "loop"
    /\ LoopCond
    /\ Len(windows) < MaxWindows
    /\ Cardinality(Misshaped) < MaxMisshaped
    /\ SliceLen # 1
    /\ ~FadeFails(1, fade)
    /\ LET v    == IF SliceLen > 0 THEN Infer(adapter, chunk)[0] ELSE 0
           g    == Gain(0, 1, fade)
           out  == [i \in 0..(SliceLen - 1) |-> v]
           gain == [i \in 0..(SliceLen - 1) |-> g]
       IN /\ final' = Accumulate(final, [i \in {0} |-> g * v])
          /\ windows' = Append(windows,
                 [start |-> start, end |-> end, lo |-> Lo, hi |-> Hi,
                  fade_in_len |-> fade.fade_in_len,
                  fade_out_len |-> fade.fade_out_len,
                  out |-> out, gain |-> gain, out_len |-> 1])
    /\ start' = IF start = 0 THEN start + FirstAdvance ELSE start + chunk_len
    /\ end' = end + chunk_len
    /\ fade' = [fade_in_len  |-> IF start = 0 THEN IntOverlapFrames
                                 ELSE fade.fade_in_len,
                fade_out_len |-> IF end' >= length THEN 0
                                 ELSE fade.fade_out_len]
    /\ UNCHANGED <<mix, adapter, length, sample_rate, segment, overlap,
                   chunk_len, pc, error>>

NextAnyAdapter == Next \/ MisshapedRaises \/ MisshapedBroadcast

\* Spec assumes that model.forward, when it returns, returns as many frames
\* as it was given; SpecAnyAdapter drops the assumption.
SpecAnyAdapter == Init /\ [][NextAnyAdapter]_vars

Spec == Init /\ [][Next]_vars

\* The call runs to its end: no step of the function is postponed forever.
FairSpec == Spec /\ WF_vars(Next)


\* ------------------------------------------------------------ vocabulary
\* A valid configuration: L >= 1, segment > 0, 0 <= overlap < 1.
Valid ==
    /\ length >= 1
    /\ segment[1] > 0
    /\ 0 <= overlap[1]
    /\ overlap[1] < overlap[2]

\* The processed windows whose clipped range [lo, hi) holds frame f.
Covering(f) == { k \in 1..Len(windows) : windows[k].lo <= f /\ f < windows[k].hi }

\* The envelope gain window k applied at frame f, times Unit^2.
GainAt(k, f) == windows[k].gain[f - windows[k].lo]

\* The raw output of model.forward for window k at frame f.
OutAt(k, f) == windows[k].out[f - windows[k].lo]

Frames == 0..(length - 1)

\* A run that hits the iteration cap with a valid configuration is one whose
\* cursor never left 0: the cap cuts only runs that cannot end.
CapOnlyWhenStuck ==
    (Valid /\ pc = "loop" /\ LoopCond /\ Len(windows) = MaxWindows)
        => (start = 0 /\ FirstAdvance = 0)

\* ---------------------------------------------------------------- claims
\* C1: for every valid configuration the first processed window starts at
\* frame 0 and, when the loop has ended, the clipped windows cover [0, L).
C1_Coverage ==
    (Valid /\ pc = "returned") =>
        /\ Len(windows) >= 1
        /\ windows[1].start = 0
        /\ \A f \in Frames : Covering(f) # {}

\* C2: for every valid configuration, at every frame covered by exactly two
\* processed windows the two envelope gains sum to exactly 1.
C2_OverlapGainsSumToOne ==
    (Valid /\ pc = "returned") =>
        \A f \in Frames :
            Cardinality(Covering(f)) = 2 =>
                \E k1, k2 \in Covering(f) :
                    /\ k1 < k2
                    /\ GainAt(k1, f) + GainAt(k2, f) = Unit * Unit

\* C3: unity-gain round trip: an all-ones signal through the identity
\* adapter returns an accumulator that is 1 at every frame of [0, L).
C3_UnityRoundTrip ==
    (/\ Valid
     /\ pc = "returned"
     /\ adapter = "identity"
     /\ \A f \in Frames : mix[f] = 1) =>
        \A f \in Frames : final[f] = Unit * Unit

\* C4: for every valid configuration, at every frame covered by exactly one
\* processed window that window's gain is exactly 1 and the accumulator
\* holds the raw inference output.
C4_SingleCoverageIsRaw ==
    (Valid /\ pc = "returned") =>
        \A f \in Frames :
            \A k \in Covering(f) :
                Covering(f) = {k} =>
                    /\ GainAt(k, f) = Unit * Unit
                    /\ final[f] = Unit * Unit * OutAt(k, f)

\* C5: every processed window is faded with fade_out_len = V if its end
\* index is < L and 0 if its end index is >= L; the last window processed
\* always has fade_out_len = 0.
C5_FadeOutLen ==
    Valid =>
        /\ \A k \in 1..Len(windows) :
              windows[k].fade_out_len =
                  IF windows[k].end < length THEN IntOverlapFrames ELSE 0
        /\ (pc = "returned" /\ Len(windows) >= 1) =>
              windows[Len(windows)].fade_out_len = 0

\* C6: when L is at most one chunk length, exactly one window is processed
\* and it is faded with fade_in_len = 0 and fade_out_len = 0.
C6_SingleWindowNoFades ==
    (Valid /\ pc = "returned" /\ length <= chunk_len) =>
        /\ Len(windows) = 1
        /\ windows[1].fade_in_len = 0
        /\ windows[1].fade_out_len = 0

\* C7: for every valid configuration every processed window other than the
\* final one has end - start = C, and its slice has exactly C frames.
\* Which window is the final one is known when the loop has ended.
C7_NonFinalLengthIsC ==
    (Valid /\ pc = "returned") =>
        \A k \in 1..(Len(windows) - 1) :
            /\ windows[k].end - windows[k].start = chunk_len
            /\ windows[k].hi - windows[k].lo = chunk_len

\* ceil(overlap_frames) for overlap >= 0: the frames a window that starts
\* after frame 0 shares with its predecessor.
CeilOverlapFrames == (OverlapFramesNum + overlap[2] - 1) \div overlap[2]

\* C7 (amended): for every valid configuration the first window, when it
\* is not the final one, has end - start = C and a slice of C frames; every
\* later non-final window has end - start = C plus the frames it shares
\* with its predecessor, and when it starts after frame 0 that is
\* C + ceil(overlap_frames) (C + V when sample_rate * overlap is whole),
\* which is also the frame count of its slice.
C7_NonFinalLengthAmended ==
    Valid =>
        \A k \in 1..(Len(windows) - 1) :
            LET w == windows[k] IN
            /\ k = 1 =>
                  /\ w.end - w.start = chunk_len
                  /\ w.hi - w.lo = chunk_len
            /\ k > 1 =>
                  w.end - w.start = chunk_len + (windows[k - 1].end - w.start)
            /\ (k > 1 /\ w.start > 0) =>
                  /\ w.end - w.start = chunk_len + CeilOverlapFrames
                  /\ w.hi - w.lo = chunk_len + CeilOverlapFrames

\* A finished run of three or more windows, with a whole number V >= 1 of
\* overlap frames, whose second window starts after frame 0 and has C + V
\* frames.
C7_Witness ==
    /\ Valid
    /\ pc = "returned"
    /\ Len(windows) >= 3
    /\ IntOverlapFrames >= 1
    /\ IntOverlapFrames * overlap[2] = OverlapFramesNum
    /\ windows[2].hi - windows[2].lo = chunk_len + IntOverlapFrames
    /\ windows[2].start > 0
    /\ windows[2].end - windows[2].start > chunk_len
    /\ windows[2].hi - windows[2].lo > chunk_len

\* C8: for every valid configuration the window loop terminates: the
\* cursor reaches start >= length - overlap_frames after finitely many
\* windows.  The loop condition depends on the cursor only, and the advance
\* of an iteration depends only on whether the cursor is 0, so an iteration
\* that leaves the cursor where it was is repeated forever: a loop that
\* terminates moves the cursor on every iteration.  Stated for
\* chunk_len >= 1, where every slice handed to model.forward is non-empty,
\* so that the property does not rest on what the model does with an empty
\* chunk.
C8_Terminates ==
    [][(Valid /\ chunk_len >= 1 /\ pc = "loop" /\ pc' = "loop")
          => start' # start]_vars

\* The same, as a liveness property of FairSpec (up to MaxWindows
\* iterations): a valid call that entered the loop returns or raises.
EventuallyEnds == (Valid /\ pc = "loop") ~> (pc \in {"returned", "raised"})

\* C9: a call with overlap = 1.0, overlap < 0 or segment <= 0 ends in
\* InvalidConfiguration before any window is computed; no accumulator is
\* returned.
InvalidCfg ==
    \/ overlap[1] >= overlap[2]
    \/ overlap[1] < 0
    \/ segment[1] <= 0

C9_InvalidConfigurationRejected ==
    InvalidCfg =>
        /\ windows = <<>>
        /\ pc # "returned"
        /\ error \in {"none", "InvalidConfiguration"}

\* C10: a call on a zero-length signal, or on a signal shorter than one
\* overlap length, ends in GeometryError and never returns an accumulator.
C10_GeometryRejected ==
    (~InvalidCfg /\ (length = 0 \/ length < IntOverlapFrames)) =>
        /\ pc # "returned"
        /\ error \in {"none", "GeometryError"}

\* C11: for every valid configuration and every processed window,
\* fade_in_len + fade_out_len in effect for that window is at most the
\* number of frames of the slice being faded, and so is each of the two.
\* The windows are those already accumulated and the one the loop is about
\* to slice and fade.
C11_FadesFitSlice ==
    Valid =>
        /\ \A k \in 1..Len(windows) :
              LET w == windows[k]
                  n == w.hi - w.lo
              IN /\ w.fade_in_len <= n
                 /\ w.fade_out_len <= n
                 /\ w.fade_in_len + w.fade_out_len <= n
        /\ (pc = "loop" /\ LoopCond) =>
              /\ fade.fade_in_len <= SliceLen
              /\ fade.fade_out_len <= SliceLen
              /\ fade.fade_in_len + fade.fade_out_len <= SliceLen

\* C12: with overlap = 0 and segment > 0 the processed windows are
\* [0, C), [C, 2C), ..., contiguous and pairwise disjoint, every window is
\* faded with fade_in_len = 0 and fade_out_len = 0 (gain 1 at every frame),
\* and the returned accumulator is the concatenation of the per-window
\* inference outputs truncated to L.
C12_ZeroOverlapTiles ==
    (overlap[1] = 0 /\ segment[1] > 0) =>
        /\ \A k \in 1..Len(windows) :
              LET w == windows[k] IN
              /\ w.start = (k - 1) * chunk_len
              /\ w.end = k * chunk_len
              /\ w.lo = Min(w.start, length)
              /\ w.hi = Min(w.end, length)
              /\ w.fade_in_len = 0
              /\ w.fade_out_len = 0
              /\ \A i \in DOMAIN w.gain : w.gain[i] = 1
        /\ pc = "returned" =>
              \A f \in Frames :
                  \E k \in 1..Len(windows) :
                      /\ Covering(f) = {k}
                      /\ final[f] = OutAt(k, f)

\* A finished run with overlap = 0 of three or more windows, the last one
\* clipped to L, whose outputs differ from window to window.
C12_Witness ==
    /\ overlap[1] = 0
    /\ segment[1] > 0
    /\ pc = "returned"
    /\ adapter = "shift"
    /\ Len(windows) >= 3
    /\ windows[Len(windows)].hi < windows[Len(windows)].end
    /\ final[length - 1] = OutAt(Len(windows), length - 1)

\* C13: for L = 100, R = 10, segment = 5, overlap = 0.1 (C = 55, V = 1)
\* exactly 2 windows are processed, the first is [0, 55), the second
\* starts at frame 54, and together they cover [0, 100).
Scenario13 ==
    /\ length = 100
    /\ sample_rate = 10
    /\ segment = <<5, 1>>
    /\ overlap = <<1, 10>>

C13_ScenarioTwoWindows ==
    Scenario13 =>
        /\ pc # "entry" => (chunk_len = 55 /\ IntOverlapFrames = 1)
        /\ Len(windows) <= 2
        /\ Len(windows) >= 1 =>
              (windows[1].start = 0 /\ windows[1].end = 55
                  /\ windows[1].lo = 0 /\ windows[1].hi = 55)
        /\ Len(windows) >= 2 => (windows[2].start = 54 /\ windows[2].lo = 54)
        /\ pc = "returned" =>
              /\ Len(windows) = 2
              /\ \A f \in 0..99 : Covering(f) # {}

\* The scenario has returned.
C13_Witness ==
    /\ Scenario13
    /\ pc = "returned"
    /\ Len(windows) = 2
    /\ windows[2].hi = 100

PyRound(a, b) ==
    LET q == a \div b
        r == a % b
    IN IF 2 * r < b THEN q
       ELSE IF 2 * r > b THEN q + 1
       ELSE IF q % 2 = 0 THEN q ELSE q + 1

\* C15: one integer overlap length V = round(R * overlap) is used
\* everywhere: the second window is faded in over V frames, the cursor
\* advance after the first window is C - V, the loop bound is L - V, and
\* so the first and second window share exactly V frames, also when
\* R * overlap is not an integer.
C15_SingleOverlapLength ==
    LET V == PyRound(OverlapFramesNum, overlap[2]) IN
    Valid =>
        /\ (pc = "loop") => (LoopCond <=> start < length - V)
        /\ Len(windows) >= 2 =>
              /\ windows[2].fade_in_len = V
              /\ windows[2].start = chunk_len - V
              /\ windows[1].end - windows[2].start = windows[2].fade_in_len

\* sample_rate * segment * (1 + overlap) as the fraction ProductNum/ProductDen
ProductNum == sample_rate * segment[1] * (overlap[2] + overlap[1])

ProductDen == segment[2] * overlap[2]

ValidParams ==
    /\ segment[1] > 0
    /\ 0 <= overlap[1]
    /\ overlap[1] < overlap[2]

\* C16: the chunk length equals round(R * segment * (1 + overlap)) for every
\* valid (R, segment, overlap), including when the product has a fractional
\* part of one half or more.
C16_ChunkLenIsRound ==
    (ValidParams /\ pc # "entry") =>
        chunk_len = PyRound(ProductNum, ProductDen)

\* C16 (amended): the chunk length is R * segment * (1 + overlap) truncated
\* to an integer: the largest integer not above the product.  It equals
\* round(product) when the fractional part is below one half, or is one
\* half with an even integer part, and is round(product) - 1 otherwise.
C16_ChunkLenIsTruncation ==
    (ValidParams /\ pc # "entry") =>
        /\ chunk_len * ProductDen <= ProductNum
        /\ ProductNum < (chunk_len + 1) * ProductDen
        /\ LET r == ProductNum - chunk_len * ProductDen IN
           IF 2 * r < ProductDen \/ (2 * r = ProductDen /\ chunk_len % 2 = 0)
           THEN chunk_len = PyRound(ProductNum, ProductDen)
           ELSE chunk_len = PyRound(ProductNum, ProductDen) - 1

\* A call whose product has a fractional part above one half: the chunk
\* length is one below the rounded product.
C16_Witness ==
    /\ ValidParams
    /\ pc = "loop"
    /\ 2 * (ProductNum % ProductDen) > ProductDen
    /\ chunk_len >= 1
    /\ chunk_len = PyRound(ProductNum, ProductDen) - 1

\* C17: if the inference adapter fails on a window (it raises, or returns
\* an output whose frame count differs from the slice it was given), the
\* run aborts at that window with an error outcome: the window is not
\* accumulated, no later window is processed and no accumulator is
\* returned.  Stated for valid configurations and slices of two or more
\* frames, where one frame is certainly an output of the wrong frame count.
C17_AdapterFailureAborts ==
    Valid =>
        /\ \A k \in 1..Len(windows) :
              windows[k].hi - windows[k].lo >= 2 =>
                  windows[k].out_len = windows[k].hi - windows[k].lo
        /\ error = "AdapterError" => pc = "raised"

\* C18: with the default parameters segment = 10 and overlap = 0.1,
\* consecutive windows overlap by 1 second of audio, sample_rate frames,
\* and the linear fade-out and fade-in each span that 1-second overlap.
DefaultParams == segment = <<10, 1>> /\ overlap = <<1, 10>>

C18_DefaultOverlapIsOneSecond ==
    (DefaultParams /\ Len(windows) >= 2) =>
        /\ windows[1].end - windows[2].start = sample_rate
        /\ windows[1].fade_out_len = sample_rate
        /\ windows[2].fade_in_len = sample_rate

\* C19: processing one window adds its faded output to the accumulator at
\* the frames of [start, min(end, L)) and changes nothing else: every other
\* accumulator frame and every sample of the input signal is as before.
C19_StepAddsInsideRange ==
    [][(pc = "loop" /\ Len(windows') = Len(windows) + 1) =>
          LET top == Min(end, length)
              out == Infer(adapter, [i \in 0..(top - start - 1) |-> mix[start + i]])
          IN /\ mix' = mix
             /\ DOMAIN final' = DOMAIN final
             /\ \A f \in Frames :
                   IF start <= f /\ f < top
                   THEN final'[f] = final[f]
                            + Gain(f - start, top - start, fade) * out[f - start]
                   ELSE final'[f] = final[f]]_vars

\* A frame of a valid call holds the sum of two non-zero contributions.
C19_Witness ==
    /\ Valid
    /\ pc = "returned"
    /\ \E f \in Frames :
          /\ Cardinality(Covering(f)) = 2
          /\ \E k1, k2 \in Covering(f) :
                /\ k1 < k2
                /\ GainAt(k1, f) * OutAt(k1, f) # 0
                /\ GainAt(k2, f) * OutAt(k2, f) # 0
                /\ final[f] = GainAt(k1, f) * OutAt(k1, f)
                                + GainAt(k2, f) * OutAt(k2, f)

\* C20: for every valid configuration the cursor is non-negative and
\* strictly increasing from one processed window to the next, no frame is
\* covered by three or more processed windows, and only consecutive windows
\* intersect, by at most V = round(R * overlap) frames.  Stated for
\* chunk_len >= 1, as C8.
Shared(j, k) ==
    Max(Min(windows[j].hi, windows[k].hi) - Max(windows[j].lo, windows[k].lo), 0)

C20_CursorAndCoverage ==
    LET V == PyRound(OverlapFramesNum, overlap[2]) IN
    (Valid /\ chunk_len >= 1) =>
        /\ \A k \in 1..Len(windows) : windows[k].start >= 0
        /\ \A k \in 1..(Len(windows) - 1) :
              windows[k].start < windows[k + 1].start
        /\ \A f \in Frames : Cardinality(Covering(f)) <= 2
        /\ \A j, k \in 1..Len(windows) :
              (j < k /\ Shared(j, k) > 0) => (k = j + 1 /\ Shared(j, k) <= V)

\* Parts of C20, for the diagnosis: when the first advance is positive the
\* cursor does increase and no frame is covered three times, but the frames
\* two windows share may still exceed V.
C20_SharedAtMostV ==
    LET V == PyRound(OverlapFramesNum, overlap[2]) IN
    (Valid /\ FirstAdvance > 0) =>
        \A j, k \in 1..Len(windows) :
            (j < k /\ Shared(j, k) > 0) => (k = j + 1 /\ Shared(j, k) <= V)

C20_Progressing ==
    (Valid /\ FirstAdvance > 0) =>
        /\ \A k \in 1..(Len(windows) - 1) :
              windows[k].start < windows[k + 1].start
        /\ \A f \in Frames : Cardinality(Covering(f)) <= 2

=============================================================================
